---- MODULE Spec2Model ----
(***************************************************************************)
(* The chat widget of src/pages/Home.tsx (component ChatWidget) as a state *)
(* machine.  One action per event handler, timer callback or promise       *)
(* continuation; an action includes the re-render that follows it and the  *)
(* effects (save, auto-greeting timer) that the re-render runs.            *)
(*                                                                         *)
(* A text is a sequence of one-character strings, so that trim, length,    *)
(* toLowerCase and includes are computed on the characters.  An optional   *)
(* value (undefined / null in the source) is a sequence of length 0 or 1.  *)
(* Message ids and timestamps are not modelled: no branch reads them.      *)
(***************************************************************************)
EXTENDS Integers, Sequences, FiniteSets, TLC

\* ------------------------------------------------------------------------
\* Program constants
\* ------------------------------------------------------------------------
AUTO_GREETING_DELAY == 5000

MAX_CHAR_LIMIT == 250

INITIAL_GREETING ==
    <<"H","i","!"," ","W","e","l","c","o","m","e"," ","t","o"," ","o","u","r",
      " ","w","e","b","s","i","t","e","."," ","I","'","m"," ","h","e","r","e",
      " ","t","o"," ","h","e","l","p"," ","y","o","u"," ","l","e","a","r","n",
      " ","a","b","o","u","t"," ","o","u","r"," ","s","e","r","v","i","c","e",
      "s",","," ","p","r","i","c","i","n","g",","," ","a","n","d"," ","a","v",
      "a","i","l","a","b","i","l","i","t","y","."," ","H","o","w"," ","c","a",
      "n"," ","I"," ","a","s","s","i","s","t"," ","y","o","u"," ","t","o","d",
      "a","y","?">>

\* the four suggested actions of the auto-greeting
GreetingActions_1 ==
    <<"V","i","e","w"," ","S","e","r","v","i","c","e","s">>

GreetingActions_2 ==
    <<"C","h","e","c","k"," ","A","v","a","i","l","a","b","i","l","i","t",
      "y">>

GreetingActions_3 ==
    <<"P","r","i","c","i","n","g"," ","I","n","f","o">>

GreetingActions_4 ==
    <<"B","o","o","k"," ","N","o","w">>

\* fallback content of a success payload whose message is empty
NoResponseText ==
    <<"I"," ","a","p","o","l","o","g","i","z","e",","," ","I"," ","c","o","u",
      "l","d"," ","n","o","t"," ","g","e","n","e","r","a","t","e"," ","a"," ",
      "r","e","s","p","o","n","s","e",".">>

\* content of the apology for a non-success payload
ProcessingErrorText ==
    <<"I"," ","a","p","o","l","o","g","i","z","e",","," ","b","u","t"," ","I",
      " ","e","n","c","o","u","n","t","e","r","e","d"," ","a","n"," ","i","s",
      "s","u","e"," ","p","r","o","c","e","s","s","i","n","g"," ","y","o","u",
      "r"," ","r","e","q","u","e","s","t","."," ","P","l","e","a","s","e"," ",
      "t","r","y"," ","a","g","a","i","n",".">>

\* content of the apology for a thrown failure
NetworkErrorText ==
    <<"I"," ","a","p","o","l","o","g","i","z","e",","," ","b","u","t"," ","I",
      " ","e","n","c","o","u","n","t","e","r","e","d"," ","a"," ","n","e","t",
      "w","o","r","k"," ","e","r","r","o","r","."," ","P","l","e","a","s","e",
      " ","c","h","e","c","k"," ","y","o","u","r"," ","c","o","n","n","e","c",
      "t","i","o","n"," ","a","n","d"," ","t","r","y"," ","a","g","a","i","n",
      ".">>

\* the substring BookingCTA looks for
book ==
    <<"b","o","o","k">>

sessionId == "session-1"

userId == "user-1"

\* ------------------------------------------------------------------------
\* Bounds of the model
\* ------------------------------------------------------------------------
\* A send is taken only while the log has room for the user message and the
\* response to it.
MaxLog == 4

\* Milliseconds by which one Tick advances a running timer.
TickStep == 2500

\* ------------------------------------------------------------------------
\* Inputs: what the user can type and what the agent can answer
\* ------------------------------------------------------------------------
Fill(n) == [i \in 1..n |-> "a"]

TextSure ==
    <<"S","u","r","e","!">>

TextBookAConsultation ==
    <<"B","o","o","k"," ","a"," ","c","o","n","s","u","l","t","a","t","i","o",
      "n">>

TextSendInfo ==
    <<"S","e","n","d"," ","i","n","f","o">>


\* Values the input element can report to handleInputChange: blank, a text
\* of exactly MAX_CHAR_LIMIT characters that starts with a blank, and a text of
\* one character more.
TypedValues ==
    { <<" ">>, <<" ">> \o Fill(MAX_CHAR_LIMIT - 1), Fill(MAX_CHAR_LIMIT + 1) }

undefined == <<>>

Some(x) == <<x>>

IsDefined(o) == Len(o) > 0

LeadQualification(q, level, next) ==
    [is_qualified |-> q, interest_level |-> level, next_action |-> next]

AgentResult(msg, lq, actions) ==
    [message |-> msg, lead_qualification |-> lq, suggested_actions |-> actions]

\* Success payloads the agent can return (response.result).
AgentResults ==
    { AgentResult(TextSure,
                  Some(LeadQualification(TRUE, "high", Some(TextBookAConsultation))),
                  Some(<<GreetingActions_4>>)),
      AgentResult(TextSure,
                  Some(LeadQualification(TRUE, "medium", Some(TextSendInfo))),
                  undefined),
      AgentResult(<<>>,
                  Some(LeadQualification(TRUE, "high", undefined)),
                  Some(<<>>)),
      AgentResult(TextSure,
                  Some(LeadQualification(FALSE, "low", Some(TextBookAConsultation))),
                  Some(<<Fill(MAX_CHAR_LIMIT + 1), <<" ">> >>)) }

\* How a call of callAIAgent can end: a success payload, a payload that is
\* not a success (result.success false or status "error"), or a rejection.
Outcomes ==
    { [kind |-> "success", result |-> r] : r \in AgentResults }
    \cup { [kind |-> k, result |-> AgentResult(<<>>, undefined, undefined)] :
             k \in {"error", "throw"} }

\* ------------------------------------------------------------------------
\* Pure helpers
\* ------------------------------------------------------------------------
Whitespace == {" ", "\t", "\n"}

RECURSIVE trimStart(_, _)
trimStart(s, i) ==
    IF i > Len(s) THEN i
    ELSE IF s[i] \in Whitespace THEN trimStart(s, i + 1) ELSE i

RECURSIVE trimEnd(_, _)
trimEnd(s, j) ==
    IF j < 1 THEN j
    ELSE IF s[j] \in Whitespace THEN trimEnd(s, j - 1) ELSE j

trim_Forgotten(s) == s

\* String.prototype.trim
trim(s) == SubSeq(s, trimStart(s, 1), trimEnd(s, Len(s)))

UpperCase ==
    <<"A","B","C","D","E","F","G","H","I","J","K","L","M",
      "N","O","P","Q","R","S","T","U","V","W","X","Y","Z">>

LowerCase ==
    <<"a","b","c","d","e","f","g","h","i","j","k","l","m",
      "n","o","p","q","r","s","t","u","v","w","x","y","z">>

\* String.prototype.toLowerCase
toLowerCase(s) ==
    [i \in 1..Len(s) |->
        IF \E k \in 1..26 : UpperCase[k] = s[i]
        THEN LowerCase[CHOOSE k \in 1..26 : UpperCase[k] = s[i]]
        ELSE s[i]]

\* String.prototype.includes
includes(s, sub) ==
    \E i \in 0..(Len(s) - Len(sub)) :
        \A j \in 1..Len(sub) : s[i + j] = sub[j]

\* Array.prototype.reverse (on a copy)
reverse(s) == [i \in 1..Len(s) |-> s[Len(s) + 1 - i]]

\* A find that returns the last element satisfying the predicate
find_LastHit(s, hits) ==
    IF hits = {} THEN undefined
    ELSE Some(s[CHOOSE i \in hits : \A j \in hits : i >= j])

\* Array.prototype.find: the first element among those at the positions
\* hits, where the predicate holds, or undefined
find(s, hits) ==
    IF hits = {} THEN undefined
    ELSE Some(s[CHOOSE i \in hits : \A j \in hits : i <= j])

\* ------------------------------------------------------------------------
\* Messages and the persistence adapter
\* ------------------------------------------------------------------------
UserMessage(text) ==
    [role |-> "user", content |-> text,
     suggested_actions |-> undefined, lead_qualification |-> undefined]

greetingMessage ==
    [role |-> "agent", content |-> INITIAL_GREETING,
     suggested_actions |->
        Some(<<GreetingActions_1, GreetingActions_2,
               GreetingActions_3, GreetingActions_4>>),
     lead_qualification |-> undefined]

agentMessage(agentData) ==
    [role |-> "agent",
     content |-> IF Len(agentData.message) = 0 THEN NoResponseText
                 ELSE agentData.message,
     suggested_actions |-> agentData.suggested_actions,
     lead_qualification |-> agentData.lead_qualification]

errorMessage(text) ==
    [role |-> "agent", content |-> text,
     suggested_actions |-> undefined, lead_qualification |-> undefined]

ChatState(msgs, session, user) ==
    [messages |-> msgs, sessionId |-> session, userId |-> user]

\* The item under STORAGE_KEY is a string: the JSON text of a ChatState, or
\* text that JSON.parse or the timestamp mapping rejects.
JSONstringify(state) == [wellFormed |-> TRUE, value |-> state]

GarbageItem == [wellFormed |-> FALSE, value |-> ChatState(<<>>, "", "")]

\* loadChatState: null when the item is absent or parsing throws
loadChatState(store) ==
    IF ~IsDefined(store) THEN undefined
    ELSE IF ~store[1].wellFormed THEN undefined
    ELSE Some(store[1].value)

\* saveChatState: setItem under STORAGE_KEY; when setItem throws (ok = FALSE)
\* the error is logged and the item stays as it was
saveChatState(state, store, ok) ==
    IF ok THEN Some(JSONstringify(state)) ELSE store

removeItem_Keeps(store) == store

\* localStorage.removeItem(STORAGE_KEY)
removeItem(store) == undefined

saveEffect_SkipsSingle(msgs, store, ok) ==
    IF Len(msgs) > 1
    THEN saveChatState(ChatState(msgs, sessionId, userId), store, ok)
    ELSE store

\* The save effect of a render in which messages changed
saveEffect(msgs, store, ok) ==
    IF Len(msgs) > 0
    THEN saveChatState(ChatState(msgs, sessionId, userId), store, ok)
    ELSE store

\* Whether the save effect of a render with log msgs calls setItem, and how
\* the call ended
saveResult(msgs, ok) ==
    IF Len(msgs) > 0 THEN (IF ok THEN "ok" ELSE "failed") ELSE "none"

greetingEffect_IgnoresLength(prevShown, prevLen, shown, len, tmr) ==
    IF prevShown = shown THEN tmr
    ELSE IF ~shown /\ len = 0 THEN Some(0)
    ELSE undefined

\* The auto-greeting effect: it re-runs when hasShownGreeting or
\* messages.length changed; its cleanup clears the timer it had set, and it
\* sets a new one (elapsed time 0) when no greeting was shown and the log is
\* empty.
greetingEffect(prevShown, prevLen, shown, len, tmr) ==
    IF prevShown = shown /\ prevLen = len THEN tmr
    ELSE IF ~shown /\ len = 0 THEN Some(0)
    ELSE undefined

\* Snapshots an earlier page load can have left under STORAGE_KEY.
EarlierSnapshots ==
    { <<greetingMessage>>,
      <<UserMessage(Fill(MAX_CHAR_LIMIT - 1))>>,
      <<greetingMessage, UserMessage(GreetingActions_4),
        agentMessage(AgentResult(TextSure,
            Some(LeadQualification(TRUE, "high", Some(TextBookAConsultation))),
            undefined))>> }

InitialStorage ==
    { undefined, Some(GarbageItem) }
    \cup { Some(JSONstringify(ChatState(m, "session-0", userId))) :
             m \in EarlierSnapshots }

\* ------------------------------------------------------------------------
\* State
\* ------------------------------------------------------------------------
VARIABLES
    mounted,              \* the mount effects have run
    isOpen,
    messages,
    inputValue,
    isTyping,
    showQuickReplies,
    currentQuickReplies,
    hasShownGreeting,
    storage,              \* localStorage item under STORAGE_KEY (optional)
    timer,                \* the pending auto-greeting timeout (optional):
                          \* milliseconds elapsed since setTimeout
    inflight,             \* texts of the callAIAgent calls not yet settled
    lastOp,               \* history: the handler that ran last
    restoredAtMount,      \* history: the load effect restored a snapshot
    userActed,            \* history: the user did something since mount
    firstEvent,           \* history: after a mount that restored nothing,
                          \* which came first, "greeting" or "send"
    resetAfterSend        \* history: a reset followed that first send

progVars ==
    <<mounted, isOpen, messages, inputValue, isTyping, showQuickReplies,
      currentQuickReplies, hasShownGreeting, storage, timer, inflight>>

histVars == <<restoredAtMount, userActed, firstEvent, resetAfterSend>>

vars == <<progVars, lastOp, histVars>>

Op(name, text, save, at) ==
    [name |-> name, text |-> text, save |-> save, at |-> at]

\* A handler no property singles out ran last.
OtherOp == Op("other", <<>>, "none", 0)

\* The state after construction (the useState defaults), before the mount
\* effects; the storage holds whatever an earlier load left.
Init ==
    /\ mounted = FALSE
    /\ isOpen = FALSE
    /\ messages = <<>>
    /\ inputValue = <<>>
    /\ isTyping = FALSE
    /\ showQuickReplies = FALSE
    /\ currentQuickReplies = <<>>
    /\ hasShownGreeting = FALSE
    /\ storage \in InitialStorage
    /\ timer = undefined
    /\ inflight = <<>>
    /\ lastOp = Op("init", <<>>, "none", 0)
    /\ restoredAtMount = FALSE
    /\ userActed = FALSE
    /\ firstEvent = "none"
    /\ resetAfterSend = FALSE

\* ------------------------------------------------------------------------
\* What the render offers
\* ------------------------------------------------------------------------
latestQualification_OfLastMessage(msgs) ==
    IF Len(msgs) > 0 /\ msgs[Len(msgs)].role = "agent"
    THEN msgs[Len(msgs)].lead_qualification
    ELSE undefined

\* latestQualification: the lead_qualification of the last agent message
\* that has one
latestQualification(msgs) ==
    LET reversed == reverse(msgs)
        hit == find(reversed,
                    {i \in 1..Len(reversed) :
                        /\ reversed[i].role = "agent"
                        /\ IsDefined(reversed[i].lead_qualification)})
    IN  IF IsDefined(hit) THEN hit[1].lead_qualification ELSE undefined

\* BookingCTA renders its card (TRUE) or null (FALSE)
BookingCTA(qualification) ==
    IF ~(IsDefined(qualification) /\ qualification[1].is_qualified) THEN FALSE
    ELSE IF ~(IsDefined(qualification[1].next_action)
              /\ includes(toLowerCase(qualification[1].next_action[1]), book))
         THEN FALSE
    ELSE TRUE

\* The booking card is on screen
BookingVisible ==
    /\ isOpen
    /\ IsDefined(latestQualification(messages))
    /\ BookingCTA(latestQualification(messages))

QuickRepliesVisible_WhileTyping ==
    /\ isOpen
    /\ showQuickReplies /\ Len(currentQuickReplies) > 0

\* The quick-reply buttons are on screen
QuickRepliesVisible ==
    /\ isOpen
    /\ showQuickReplies /\ Len(currentQuickReplies) > 0 /\ ~isTyping

\* The input element accepts keys and changes
InputEnabled == isOpen /\ ~isTyping

\* The send button accepts clicks
SendEnabled == isOpen /\ ~(Len(trim(inputValue)) = 0 \/ isTyping)

\* ------------------------------------------------------------------------
\* Actions
\* ------------------------------------------------------------------------
\* The mount effects: load, save, auto-greeting; and the effects of the
\* re-render the load effect causes.
Mount ==
    /\ ~mounted
    /\ \E ok \in BOOLEAN :
        LET savedState == loadChatState(storage)
            restore == IsDefined(savedState) /\ Len(savedState[1].messages) > 0
            msgs == IF restore THEN savedState[1].messages ELSE messages
            reversed == reverse(msgs)
            lastAgentMsg == find(reversed,
                                 {i \in 1..Len(reversed) : reversed[i].role = "agent"})
            replies == /\ restore
                       /\ IsDefined(lastAgentMsg)
                       /\ IsDefined(lastAgentMsg[1].suggested_actions)
                       /\ Len(lastAgentMsg[1].suggested_actions[1]) > 0
            shown == IF restore THEN TRUE ELSE hasShownGreeting
            firstTimer == IF ~hasShownGreeting /\ Len(messages) = 0
                          THEN Some(0) ELSE undefined
        IN  /\ mounted' = TRUE
            /\ messages' = msgs
            /\ hasShownGreeting' = shown
            /\ currentQuickReplies' =
                 IF replies THEN lastAgentMsg[1].suggested_actions[1]
                 ELSE currentQuickReplies
            /\ showQuickReplies' = IF replies THEN TRUE ELSE showQuickReplies
            /\ storage' = saveEffect(msgs, storage, ok)
            /\ timer' = greetingEffect(hasShownGreeting, Len(messages),
                                       shown, Len(msgs), firstTimer)
            /\ lastOp' = Op("mount", <<>>, saveResult(msgs, ok), 0)
            /\ restoredAtMount' = restore
    /\ UNCHANGED <<isOpen, inputValue, isTyping, inflight>>
    /\ UNCHANGED <<userActed, firstEvent, resetAfterSend>>

\* The floating button
Open ==
    /\ mounted /\ ~isOpen
    /\ isOpen' = TRUE
    /\ lastOp' = OtherOp
    /\ userActed' = TRUE
    /\ UNCHANGED <<mounted, messages, inputValue, isTyping, showQuickReplies,
                   currentQuickReplies, hasShownGreeting, storage, timer, inflight>>
    /\ UNCHANGED <<restoredAtMount, firstEvent, resetAfterSend>>

\* The minimize button
Minimize ==
    /\ mounted /\ isOpen
    /\ isOpen' = FALSE
    /\ lastOp' = OtherOp
    /\ userActed' = TRUE
    /\ UNCHANGED <<mounted, messages, inputValue, isTyping, showQuickReplies,
                   currentQuickReplies, hasShownGreeting, storage, timer, inflight>>
    /\ UNCHANGED <<restoredAtMount, firstEvent, resetAfterSend>>

\* The reset button: setMessages([]), setHasShownGreeting(false), removeItem
Reset ==
    /\ mounted /\ isOpen
    /\ messages' = <<>>
    /\ hasShownGreeting' = FALSE
    /\ \E ok \in BOOLEAN : storage' = saveEffect(messages', removeItem(storage), ok)
    /\ timer' = greetingEffect(hasShownGreeting, Len(messages), FALSE, 0, timer)
    /\ lastOp' = Op("reset", <<>>, "none", 0)
    /\ userActed' = TRUE
    /\ resetAfterSend' = (resetAfterSend \/ firstEvent = "send")
    /\ UNCHANGED <<mounted, isOpen, inputValue, isTyping, showQuickReplies,
                   currentQuickReplies, inflight>>
    /\ UNCHANGED <<restoredAtMount, firstEvent>>

\* handleInputChange: a value longer than MAX_CHAR_LIMIT is not taken
handleInputChange(value) ==
    /\ mounted /\ InputEnabled
    /\ inputValue' = IF Len(value) <= MAX_CHAR_LIMIT THEN value ELSE inputValue
    /\ lastOp' = OtherOp
    /\ userActed' = TRUE
    /\ UNCHANGED <<mounted, isOpen, messages, isTyping, showQuickReplies,
                   currentQuickReplies, hasShownGreeting, storage, timer, inflight>>
    /\ UNCHANGED <<restoredAtMount, firstEvent, resetAfterSend>>

\* handleSendMessage up to the await, and the render that follows; via names
\* the control that called it
handleSendMessage(text, via) ==
    LET trimmedText == trim(text)
    IN  /\ userActed' = TRUE
        /\ UNCHANGED <<mounted, isOpen, currentQuickReplies, hasShownGreeting>>
        /\ UNCHANGED <<restoredAtMount, resetAfterSend>>
        /\ IF Len(trimmedText) = 0
           THEN /\ lastOp' = Op(via, text, "none", 0)
                /\ UNCHANGED <<messages, inputValue, isTyping, showQuickReplies,
                               storage, timer, inflight, firstEvent>>
           ELSE /\ Len(messages) + Len(inflight) + 2 <= MaxLog
                /\ showQuickReplies' = FALSE
                /\ messages' = Append(messages, UserMessage(trimmedText))
                /\ inputValue' = <<>>
                /\ isTyping' = TRUE
                /\ inflight' = Append(inflight, trimmedText)
                /\ timer' = greetingEffect(hasShownGreeting, Len(messages),
                                           hasShownGreeting, Len(messages) + 1,
                                           timer)
                /\ firstEvent' = IF firstEvent = "none" /\ ~restoredAtMount
                                 THEN "send" ELSE firstEvent
                /\ \E ok \in BOOLEAN :
                     /\ storage' = saveEffect(messages', storage, ok)
                     /\ lastOp' = Op(via, text, saveResult(messages', ok), 0)

\* The send button
SendButton ==
    /\ mounted /\ SendEnabled
    /\ handleSendMessage(inputValue, "button")

\* handleKeyPress: Enter without Shift in the input element
handleKeyPress ==
    /\ mounted /\ InputEnabled
    /\ handleSendMessage(inputValue, "enter")

\* QuickReplyButtons renders one button per action, each calling
\* onSelect(action); the user clicks the first or the last of them.
ClickedButtons(actions) == {1, Len(actions)}

\* handleQuickReply: a click on the i-th quick-reply button
handleQuickReply ==
    /\ mounted /\ QuickRepliesVisible
    /\ \E i \in ClickedButtons(currentQuickReplies) :
         handleSendMessage(currentQuickReplies[i], "quick")

\* The message handleSendMessage builds from the settled call
responseMessage(outcome) ==
    CASE outcome.kind = "success" -> agentMessage(outcome.result)
      [] outcome.kind = "error" -> errorMessage(ProcessingErrorText)
      [] outcome.kind = "throw" -> errorMessage(NetworkErrorText)

appendResponse_DropOnThrow(prev, outcome) ==
    IF outcome.kind = "throw" THEN prev
    ELSE Append(prev, responseMessage(outcome))

\* setMessages(prev => [...prev, message]) on each of the three paths
appendResponse(prev, outcome) == Append(prev, responseMessage(outcome))

\* handleSendMessage after the await: the k-th pending call settles
AgentSettles ==
    /\ mounted
    /\ \E k \in 1..Len(inflight), outcome \in Outcomes, ok \in BOOLEAN :
        LET agentData == outcome.result
            newReplies == /\ outcome.kind = "success"
                          /\ IsDefined(agentData.suggested_actions)
                          /\ Len(agentData.suggested_actions[1]) > 0
        IN  /\ inflight' = SubSeq(inflight, 1, k - 1)
                           \o SubSeq(inflight, k + 1, Len(inflight))
            /\ isTyping' = FALSE
            /\ messages' = appendResponse(messages, outcome)
            /\ currentQuickReplies' =
                 IF newReplies THEN agentData.suggested_actions[1]
                 ELSE currentQuickReplies
            /\ showQuickReplies' = IF newReplies THEN TRUE ELSE showQuickReplies
            /\ storage' = saveEffect(messages', storage, ok)
            /\ timer' = greetingEffect(hasShownGreeting, Len(messages),
                                       hasShownGreeting, Len(messages) + 1, timer)
            /\ lastOp' = Op(outcome.kind, inflight[k], saveResult(messages', ok), 0)
    /\ UNCHANGED <<mounted, isOpen, inputValue, hasShownGreeting>>
    /\ UNCHANGED histVars

\* Time passes while the auto-greeting timer runs
Tick ==
    /\ mounted
    /\ IsDefined(timer) /\ timer[1] < AUTO_GREETING_DELAY
    /\ timer' = Some(timer[1] + TickStep)
    /\ lastOp' = OtherOp
    /\ UNCHANGED <<mounted, isOpen, messages, inputValue, isTyping, showQuickReplies,
                   currentQuickReplies, hasShownGreeting, storage, inflight>>
    /\ UNCHANGED histVars

TimerExpired_AtOnce(tmr) == IsDefined(tmr)

\* The timer expired
TimerExpired(tmr) == IsDefined(tmr) /\ tmr[1] >= AUTO_GREETING_DELAY

\* The callback of the auto-greeting timer
AutoGreeting ==
    /\ mounted
    /\ TimerExpired(timer)
    /\ messages' = <<greetingMessage>>
    /\ currentQuickReplies' = greetingMessage.suggested_actions[1]
    /\ showQuickReplies' = TRUE
    /\ hasShownGreeting' = TRUE
    /\ timer' = greetingEffect(hasShownGreeting, Len(messages), TRUE, 1, undefined)
    /\ \E ok \in BOOLEAN :
         /\ storage' = saveEffect(messages', storage, ok)
         /\ lastOp' = Op("greeting", <<>>, saveResult(messages', ok), timer[1])
    /\ firstEvent' = IF firstEvent = "none" /\ ~restoredAtMount
                     THEN "greeting" ELSE firstEvent
    /\ UNCHANGED <<mounted, isOpen, inputValue, isTyping, inflight>>
    /\ UNCHANGED <<restoredAtMount, userActed, resetAfterSend>>

Next ==
    \/ Mount
    \/ Open
    \/ Minimize
    \/ Reset
    \/ \E value \in TypedValues : handleInputChange(value)
    \/ SendButton
    \/ handleKeyPress
    \/ handleQuickReply
    \/ AgentSettles
    \/ Tick
    \/ AutoGreeting

Spec == Init /\ [][Next]_vars

\* Effects run after the first render, time passes while a timer is pending
\* and an expired timer's callback runs (at most one of the three is enabled
\* in a state).
FairSpec == Spec /\ WF_vars(Mount \/ Tick \/ AutoGreeting)

\* ------------------------------------------------------------------------
\* Vocabulary of the properties
\* ------------------------------------------------------------------------
SendOps == {"button", "enter", "quick"}

SettleOps == {"success", "error", "throw"}

\* A text with no character other than whitespace
IsBlank(text) == \A i \in 1..Len(text) : text[i] \in Whitespace

\* t is text without its leading and trailing whitespace
IsStripped(t, text) ==
    /\ Len(t) > 0 => (t[1] \notin Whitespace /\ t[Len(t)] \notin Whitespace)
    /\ \E a \in 0..(Len(text) - Len(t)) :
         /\ \A i \in 1..a : text[i] \in Whitespace
         /\ \A i \in 1..Len(t) : text[a + i] = t[i]
         /\ \A i \in (a + Len(t) + 1)..Len(text) : text[i] \in Whitespace

\* s extends r by exactly one element at the end
ExtendsByOne(s, r) ==
    /\ Len(s) = Len(r) + 1
    /\ \A i \in 1..Len(r) : s[i] = r[i]

\* ------------------------------------------------------------------------
\* C1
\* ------------------------------------------------------------------------
\* C1: a send of a text that is not blank appends exactly one user message
\* (the trimmed text) in the step that issues the agent call, so before any
\* response; the settling of a call, whether by a success payload, a
\* non-success payload or a thrown failure, appends exactly one agent message.
C1_SendThenOneAgentMessage ==
    [][ /\ (lastOp'.name \in SendOps /\ ~IsBlank(lastOp'.text))
           => /\ ExtendsByOne(messages', messages)
              /\ messages'[Len(messages')].role = "user"
              /\ IsStripped(messages'[Len(messages')].content, lastOp'.text)
              /\ inflight' = Append(inflight, messages'[Len(messages')].content)
        /\ (lastOp'.name \in SettleOps)
           => /\ ExtendsByOne(messages', messages)
              /\ messages'[Len(messages')].role = "agent"
              /\ Len(inflight') = Len(inflight) - 1 ]_vars

C1_Witness ==
    /\ lastOp.name = "throw"
    /\ Len(messages) >= 2
    /\ messages[Len(messages) - 1].role = "user"
    /\ messages[Len(messages) - 1].content = lastOp.text
    /\ messages[Len(messages)].content = NetworkErrorText

\* ------------------------------------------------------------------------
\* C2
\* ------------------------------------------------------------------------
\* C2: right after a reset the log is empty and no item is stored under the
\* storage key, whatever the state before (a restored history, a greeting, a
\* pending agent call).
C2_ResetEmptiesLogAndStorage ==
    lastOp.name = "reset" => (Len(messages) = 0 /\ ~IsDefined(storage))

C2_Witness ==
    /\ lastOp.name = "reset"
    /\ restoredAtMount
    /\ Len(inflight) > 0

\* ------------------------------------------------------------------------
\* C3
\* ------------------------------------------------------------------------
\* The handler that ran last changed the log: a user message, an agent
\* message or apology, the auto-greeting, or a snapshot restored on mount.
LogMutated ==
    \/ lastOp.name \in SendOps /\ ~IsBlank(lastOp.text)
    \/ lastOp.name \in SettleOps
    \/ lastOp.name = "greeting"
    \/ lastOp.name = "mount" /\ restoredAtMount

\* The stored item parses to a snapshot with as many messages as the log
PersistedCountMatches ==
    /\ IsDefined(storage)
    /\ storage[1].wellFormed
    /\ Len(storage[1].value.messages) = Len(messages)

GreetingOnceAfterDelay ==
    /\ ~userActed => (messages = <<>> \/ messages = <<greetingMessage>>)
    /\ lastOp.name = "greeting" => lastOp.at >= AUTO_GREETING_DELAY

\* C4 as stated: with no snapshot at mount, one greeting and not before the
\* delay when the user does nothing; and once the user has sent a message
\* before the greeting, the greeting never appears.
C4_Original ==
    (mounted /\ ~restoredAtMount) =>
        /\ GreetingOnceAfterDelay
        /\ firstEvent = "send" => lastOp.name # "greeting"

\* With no snapshot at mount and no user action, the greeting does appear.
GreetingAppears ==
    (mounted /\ ~restoredAtMount /\ ~userActed)
        ~> (userActed \/ messages = <<greetingMessage>>)

\* C4 as amended: with no snapshot at mount, exactly one greeting appears, and
\* not before the delay, when the user does nothing; once the user has sent a
\* message before the greeting, the greeting does not appear unless the
\* conversation is reset afterwards.
C4_GreetingUnlessSentAndNotReset ==
    /\ []((mounted /\ ~restoredAtMount) =>
            /\ GreetingOnceAfterDelay
            /\ (firstEvent = "send" /\ ~resetAfterSend)
                   => lastOp.name # "greeting")
    /\ GreetingAppears

C4_Witness ==
    /\ mounted /\ ~restoredAtMount
    /\ firstEvent = "send" /\ ~resetAfterSend
    /\ Len(messages) >= 2
    /\ ~hasShownGreeting /\ ~IsDefined(timer)

\* ------------------------------------------------------------------------
\* C5
\* ------------------------------------------------------------------------
\* C5: no user message in the log and no text sent to the agent is longer
\* than MAX_CHAR_LIMIT characters, whichever control triggered the send.
C5_UserTextWithinLimit ==
    /\ \A i \in 1..Len(messages) :
         messages[i].role = "user" => Len(messages[i].content) <= MAX_CHAR_LIMIT
    /\ \A k \in 1..Len(inflight) : Len(inflight[k]) <= MAX_CHAR_LIMIT

\* ------------------------------------------------------------------------
\* C6
\* ------------------------------------------------------------------------
\* Some occurrence of b-o-o-k in text, in either case of each letter
ContainsBook(text) ==
    \E i \in 1..(Len(text) - 3) :
        /\ text[i] \in {"b", "B"}
        /\ text[i + 1] \in {"o", "O"}
        /\ text[i + 2] \in {"o", "O"}
        /\ text[i + 3] \in {"k", "K"}

\* Positions of the agent messages that carry a lead qualification
QualifiedAt == {i \in 1..Len(messages) :
                  /\ messages[i].role = "agent"
                  /\ IsDefined(messages[i].lead_qualification)}

\* The most recent agent message with a lead qualification is qualified and
\* its next-action hint contains "book"
LatestQualificationAsksToBook ==
    /\ QualifiedAt # {}
    /\ LET last == CHOOSE i \in QualifiedAt : \A j \in QualifiedAt : j <= i
           lq == messages[last].lead_qualification[1]
       IN  /\ lq.is_qualified
           /\ IsDefined(lq.next_action)
           /\ ContainsBook(lq.next_action[1])

\* C6 as stated: in every reachable state the booking prompt is visible
\* exactly when the most recent agent message with a lead qualification is
\* qualified with a next-action hint containing "book".
C6_Original == BookingVisible <=> LatestQualificationAsksToBook

\* C6 as amended: while the widget is expanded the booking prompt is visible
\* exactly when the most recent agent message with a lead qualification is
\* qualified with a next-action hint containing "book"; while it is collapsed
\* the prompt is not visible.
C6_BookingVisibleWhenExpanded ==
    /\ isOpen => (BookingVisible <=> LatestQualificationAsksToBook)
    /\ ~isOpen => ~BookingVisible

\* The prompt stays after an apology that carries no qualification.
C6_Witness ==
    /\ BookingVisible
    /\ Len(messages) >= 4
    /\ messages[Len(messages)].content = ProcessingErrorText
    /\ ~IsDefined(messages[Len(messages)].lead_qualification)

\* ------------------------------------------------------------------------
\* C7
\* ------------------------------------------------------------------------
\* C7: a send of an empty or blank text changes nothing: log, typing flag,
\* quick replies and their visibility, input buffer, stored snapshot, timer and
\* pending agent calls stay as they were.
C7_BlankSendChangesNothing ==
    [][ (lastOp'.name \in SendOps /\ IsBlank(lastOp'.text))
           => UNCHANGED progVars ]_vars

C7_Witness ==
    /\ lastOp.name = "quick"
    /\ Len(lastOp.text) > 0
    /\ IsBlank(lastOp.text)
    /\ QuickRepliesVisible

\* ------------------------------------------------------------------------
\* C8
\* ------------------------------------------------------------------------
\* C8: at most one agent call is outstanding, and while one is outstanding
\* no control that sends is available: the input element and the send button
\* are disabled and no quick-reply button is rendered.
C8_AtMostOneOutstanding ==
    /\ Len(inflight) <= 1
    /\ Len(inflight) = 1 =>
          (~InputEnabled /\ ~SendEnabled /\ ~QuickRepliesVisible)

\* A greeting that arrived after a reset, during the pending window
C8_Witness ==
    /\ Len(inflight) = 1
    /\ lastOp.name = "greeting"
    /\ isOpen /\ showQuickReplies /\ Len(currentQuickReplies) > 0

\* ------------------------------------------------------------------------
\* C9
\* ------------------------------------------------------------------------
\* C9: once the log is initialised by the mount effects, every change of it
\* other than a reset adds exactly one message at the end and keeps the
\* earlier ones; so the auto-greeting never replaces a non-empty log.
C9_LogAppendOnly ==
    [][ (mounted /\ lastOp'.name # "reset" /\ messages' # messages)
           => ExtendsByOne(messages', messages) ]_vars

\* A greeting fired after a conversation that was reset
C9_Witness ==
    /\ lastOp.name = "greeting"
    /\ resetAfterSend
    /\ Len(inflight) > 0

\* ------------------------------------------------------------------------
\* C10
\* ------------------------------------------------------------------------
\* C10: right after a reset no quick-reply button is visible.
C10_ResetHidesQuickReplies ==
    lastOp.name = "reset" => ~QuickRepliesVisible

\* ------------------------------------------------------------------------
\* C11
\* ------------------------------------------------------------------------
\* The item under STORAGE_KEY is a snapshot with at least one message
HoldsSnapshot(store) ==
    /\ IsDefined(store)
    /\ store[1].wellFormed
    /\ Len(store[1].value.messages) > 0

\* The suggested actions of the agent message at the greatest position of
\* snap, empty when that message has none or snap has no agent message
MostRecentAgentActions(snap) ==
    LET agents == {i \in 1..Len(snap) : snap[i].role = "agent"}
    IN  IF agents = {} THEN <<>>
        ELSE LET m == snap[CHOOSE i \in agents : \A j \in agents : j <= i]
             IN  IF IsDefined(m.suggested_actions)
                 THEN m.suggested_actions[1] ELSE <<>>

\* The mount step of a page load that finds a snapshot: the log becomes the
\* snapshot's messages, the greeting counts as shown and no timer is set
MountRestoresLog ==
    (~mounted /\ mounted' /\ HoldsSnapshot(storage))
        => /\ restoredAtMount'
           /\ messages' = storage[1].value.messages
           /\ hasShownGreeting'
           /\ ~IsDefined(timer')

\* In a load that restored a snapshot the greeting stays shown, and no
\* greeting is appended, by every step other than a reset
NoGreetingUntilReset ==
    (restoredAtMount /\ hasShownGreeting /\ lastOp'.name # "reset")
        => /\ hasShownGreeting'
           /\ ~IsDefined(timer')
           /\ lastOp'.name # "greeting"

\* The mount step of such a load leaves exactly the most recent agent
\* message's suggested actions visible
MountShowsQuickReplies ==
    (~mounted /\ mounted' /\ HoldsSnapshot(storage))
        => LET actions == MostRecentAgentActions(storage[1].value.messages)
           IN  IF Len(actions) > 0
               THEN QuickRepliesVisible' /\ currentQuickReplies' = actions
               ELSE ~QuickRepliesVisible'

MountKeepsQuickReplies ==
    (~mounted /\ mounted' /\ HoldsSnapshot(storage))
        => LET actions == MostRecentAgentActions(storage[1].value.messages)
           IN  /\ ~isOpen' /\ ~QuickRepliesVisible'
               /\ ~isTyping'
               /\ IF Len(actions) > 0
                  THEN showQuickReplies' /\ currentQuickReplies' = actions
                  ELSE ~showQuickReplies' \/ Len(currentQuickReplies') = 0

\* Opening the widget right after such a mount makes exactly those actions
\* visible
OpenShowsQuickReplies ==
    (lastOp.name = "mount" /\ restoredAtMount /\ ~isOpen /\ isOpen')
        => LET actions == MostRecentAgentActions(messages)
           IN  IF Len(actions) > 0
               THEN QuickRepliesVisible' /\ currentQuickReplies' = actions
               ELSE ~QuickRepliesVisible'

====
